---------------------------- MODULE Spec2Model ----------------------------
(***************************************************************************)
(* A model of the food-image upload / nutrition-analysis services:        *)
(*   app/services/file_service.py       FileService                       *)
(*   app/services/user_service.py       UserService                       *)
(*   app/services/nutrition_service.py  NutritionAnalysisService          *)
(*   app/models.py                      the tables and their constraints  *)
(*                                                                         *)
(* Strings whose characters matter (file names) are tuples of one-letter  *)
(* strings.  Python's None is the value None; a key missing from a dict   *)
(* is the value Absent.                                                    *)
(***************************************************************************)
EXTENDS Integers, Sequences, FiniteSets, TLC

VARIABLES
    users,          \* rows of table users
    images,         \* rows of table food_images
    analyses,       \* rows of table nutritional_analyses
    allergens,      \* rows of table allergens
    detections,     \* rows of table allergen_detections
    files,          \* the upload directory: path -> the image file stored there
    nextId,         \* per table, the next autoincrement primary key
    nextUuid,       \* the next value uuid4() hands out (never repeated)
    op              \* the last service call: its name, arguments and outcome

vars == <<users, images, analyses, allergens, detections, files, nextId, nextUuid, op>>

\* Python values: None, a key missing from a dict, a number, a text.  Decimal
\* numbers are counted in hundredths (the columns have decimal_places=2).
None == [none |-> TRUE]
Absent == [absent |-> TRUE]
Num(n) == [num |-> n]
Text(s) == [text |-> s]

IsNum(v) == "num" \in DOMAIN v
IsText(v) == "text" \in DOMAIN v

-----------------------------------------------------------------------------
(* Strings as tuples of characters *)

UpperAlpha ==
    <<"A","B","C","D","E","F","G","H","I","J","K","L","M",
      "N","O","P","Q","R","S","T","U","V","W","X","Y","Z">>

LowerAlpha ==
    <<"a","b","c","d","e","f","g","h","i","j","k","l","m",
      "n","o","p","q","r","s","t","u","v","w","x","y","z">>

\* str.lower() on one character
LowerChar(c) ==
    IF \E i \in 1..26 : UpperAlpha[i] = c
    THEN LowerAlpha[CHOOSE i \in 1..26 : UpperAlpha[i] = c]
    ELSE c

\* str.lower()
Lower(s) == [i \in 1..Len(s) |-> LowerChar(s[i])]

\* str.rfind(c): the last index of c in s (1-based), 0 when there is none
RFind(s, c) ==
    IF \E i \in 1..Len(s) : s[i] = c
    THEN CHOOSE i \in 1..Len(s) : s[i] = c /\ \A j \in (i+1)..Len(s) : s[j] # c
    ELSE 0

\* PurePath.name: the final path component
PathName(p) == SubSeq(p, RFind(p, "/") + 1, Len(p))

\* PurePath.suffix: the final component's last dot and what follows it, unless
\* that dot starts or ends the component
PathSuffix(p) ==
    LET name == PathName(p)
        i    == RFind(name, ".")
    IN  IF 1 < i /\ i < Len(name) THEN SubSeq(name, i, Len(name)) ELSE <<>>

-----------------------------------------------------------------------------
(* FileService *)

ALLOWED_EXTENSIONS ==
    { <<".","j","p","g">>, <<".","j","p","e","g">>, <<".","p","n","g">>,
      <<".","w","e","b","p">>, <<".","b","m","p">> }

MAX_FILE_SIZE == 10 * 1024 * 1024

MAX_IMAGE_SIZE == <<2048, 2048>>

\* Image.open(...).verify() succeeds on bytes that hold an image
IsImage(content) == content.kind = "image"

\* validate_image_file without its size check
validate_image_file_unbounded(content, filename) ==
    IF Lower(PathSuffix(filename)) \notin ALLOWED_EXTENSIONS
    THEN FALSE
    ELSE IsImage(content)

\* validate_image_file rejecting a file of exactly the ceiling
validate_image_file_strict(content, filename) ==
    IF content.len >= MAX_FILE_SIZE
    THEN FALSE
    ELSE IF Lower(PathSuffix(filename)) \notin ALLOWED_EXTENSIONS
         THEN FALSE
         ELSE IsImage(content)

\* FileService.validate_image_file
validate_image_file(content, filename) ==
    IF content.len > MAX_FILE_SIZE
    THEN FALSE
    ELSE IF Lower(PathSuffix(filename)) \notin ALLOWED_EXTENSIONS
         THEN FALSE
         ELSE IsImage(content)


\* Image.convert / the mode test of save_image: RGBA and palette images become RGB
ConvertedMode(mode) == IF mode \in {"RGBA", "P"} THEN "RGB" ELSE mode

Abs(n) == IF n < 0 THEN -n ELSE n

Max2(a, b) == IF a >= b THEN a ELSE b

\* round_aspect of Image.thumbnail for the width: of floor and ceil of
\* y * (w / h), the one whose ratio to y is nearer the aspect w / h (floor on
\* a tie), and at least 1
RoundAspectX(w, h, y) ==
    LET f == (y * w) \div h
        c == IF (y * w) % h = 0 THEN f ELSE f + 1
    IN  Max2(IF Abs(w * y - f * h) <= Abs(w * y - c * h) THEN f ELSE c, 1)

\* round_aspect of Image.thumbnail for the height: of floor and ceil of
\* x / (w / h), the one n whose x / n is nearer the aspect (key 0 when n = 0),
\* and at least 1
RoundAspectY(w, h, x) ==
    LET f == (x * h) \div w
        c == IF (x * h) % w = 0 THEN f ELSE f + 1
    IN  Max2(IF f = 0 \/ Abs(w * f - x * h) * c <= Abs(w * c - x * h) * f
             THEN f ELSE c, 1)

\* Image.thumbnail(size): the size the image has afterwards; the aspect ratio
\* is kept and the image is never enlarged
thumbnail(w, h, size) ==
    IF size[1] >= w /\ size[2] >= h
    THEN <<w, h>>
    ELSE IF size[1] * h >= w * size[2]
         THEN <<RoundAspectX(w, h, size[2]), size[2]>>
         ELSE <<size[1], RoundAspectY(w, h, size[1])>>

\* save_image resizing only an image that is too wide
ResizedSize_width_only(w, h) ==
    IF w > MAX_IMAGE_SIZE[1]
    THEN thumbnail(w, h, MAX_IMAGE_SIZE)
    ELSE <<w, h>>

\* save_image lines 56-57: resize if too large
ResizedSize(w, h) ==
    IF w > MAX_IMAGE_SIZE[1] \/ h > MAX_IMAGE_SIZE[2]
    THEN thumbnail(w, h, MAX_IMAGE_SIZE)
    ELSE <<w, h>>

\* Image.save picks the file format from the extension of the path
FormatOfExt(ext) ==
    CASE ext \in {<<".","j","p","g">>, <<".","j","p","e","g">>} -> "JPEG"
      [] ext = <<".","p","n","g">> -> "PNG"
      [] ext = <<".","w","e","b","p">> -> "WEBP"
      [] ext = <<".","b","m","p">> -> "BMP"
      [] OTHER -> "unknown"

\* Image.save: the colour mode of the file written for an image of colour mode
\* `mode` in format `fmt`, "error" when the format cannot hold the mode (the
\* encoder raises OSError) or the extension names no format (ValueError).
\* PNG keeps the mode, WebP stores RGB or, for a mode with alpha, RGBA; JPEG and
\* BMP hold no grey+alpha image.
SavedMode(fmt, mode) ==
    CASE fmt = "PNG" -> mode
      [] fmt = "WEBP" -> IF mode \in {"RGBA", "LA"} THEN "RGBA" ELSE "RGB"
      [] fmt = "JPEG" -> IF mode \in {"RGB", "L"} THEN mode ELSE "error"
      [] fmt = "BMP" -> IF mode \in {"RGB", "L", "P", "RGBA"} THEN mode ELSE "error"
      [] OTHER -> "error"

\* The upload path of a stored image: UPLOAD_DIR / (uuid4().hex + extension)
UploadPath(uuid, ext) == [dir |-> "uploads", uuid |-> uuid, ext |-> ext]

\* FileService.save_image: what it returns and the file it writes, or that it
\* raised (the bytes hold no image, or Image.save raised, leaving no file)
save_image(content, original_filename, uuid) ==
    LET file_ext  == Lower(PathSuffix(original_filename))
        file_path == UploadPath(uuid, file_ext)
        mode      == ConvertedMode(content.mode)
        size      == ResizedSize(content.width, content.height)
        fmt       == FormatOfExt(file_path.ext)
    IN  IF ~IsImage(content) \/ SavedMode(fmt, mode) = "error"
        THEN [raised |-> TRUE]
        ELSE [raised    |-> FALSE,
              filename  |-> [uuid |-> uuid, ext |-> file_ext],
              file_path |-> file_path,
              width     |-> size[1],
              height    |-> size[2],
              file      |-> [mode   |-> SavedMode(fmt, mode),
                             format |-> fmt,
                             width  |-> size[1],
                             height |-> size[2]]]

-----------------------------------------------------------------------------
(* The inputs *)

\* Content lengths around the size ceiling
ImageLens == {1024, MAX_FILE_SIZE, MAX_FILE_SIZE + 1}

BytesLens == {0, 12, MAX_FILE_SIZE + 1}

\* Widths and heights around the maximum
ImageDims == {1, 100, 2048, 2049, 3000}

\* The colour modes a decoder yields for each format
FormatModes ==
    { <<"JPEG", "RGB">>, <<"JPEG", "L">>,
      <<"PNG", "RGB">>, <<"PNG", "RGBA">>, <<"PNG", "P">>, <<"PNG", "L">>,
      <<"PNG", "LA">>, <<"GIF", "P">> }

ImagesOfLen(lens) ==
    { [kind |-> "image", len |-> l, format |-> fm[1], mode |-> fm[2],
       width |-> w, height |-> h] :
        l \in lens, fm \in FormatModes, w \in ImageDims, h \in ImageDims }

\* Bytes that hold no image
BytesOfLen(lens) ==
    { [kind |-> "bytes", len |-> l, format |-> "none", mode |-> "none",
       width |-> 0, height |-> 0] : l \in lens }

Contents == ImagesOfLen(ImageLens) \cup BytesOfLen(BytesLens)

FileNames ==
    { <<"t","e","s","t",".","j","p","g">>,
      <<"t","e","s","t",".","j","p","e","g">>,
      <<"t","e","s","t",".","p","n","g">>,
      <<"a",".","w","e","b","p">>,
      <<"a",".","b","m","p">>,
      <<"a",".","J","P","G">>,
      <<"a",".","P","n","G">>,
      <<"d",".","x","/","a",".","j","p","g">>,
      <<"a",".","t","x","t",".","b","m","p">>,
      <<"t","e","s","t",".","t","x","t">>,
      <<"a",".","g","i","f">>,
      <<"a",".","j","p","g","x">>,
      <<"a",".","p","n","g",".","t","x","t">>,
      <<"j","p","g">>,
      <<".","p","n","g">>,
      <<"a",".","j","p","g",".">>,
      <<"d",".","p","n","g","/","a">>,
      <<>> }

-----------------------------------------------------------------------------
(* The state after construction: empty tables, an empty upload directory *)

Tables == {"users", "food_images", "nutritional_analyses", "allergens", "allergen_detections"}

\* op before any call: every call record has a name and says whether it is done
NoOp == [name |-> "none", done |-> TRUE]

Init ==
    /\ users = {}
    /\ images = {}
    /\ analyses = {}
    /\ allergens = {}
    /\ detections = {}
    /\ files = {}
    /\ nextId = [t \in Tables |-> 1]
    /\ nextUuid = 1
    /\ op = NoOp

-----------------------------------------------------------------------------
(* Validation on its own: one call of validate_image_file, its arguments   *)
(* drawn from every content and file name                                  *)

InitValidate ==
    /\ users = {}
    /\ images = {}
    /\ analyses = {}
    /\ allergens = {}
    /\ detections = {}
    /\ files = {}
    /\ nextId = [t \in Tables |-> 1]
    /\ nextUuid = 1
    /\ \E content \in Contents, filename \in FileNames :
          op = [name     |-> "validate_image_file",
                content  |-> content,
                filename |-> filename,
                done     |-> FALSE,
                ret      |-> None]

ValidateImageFile ==
    /\ op.name = "validate_image_file"
    /\ ~op.done
    /\ op' = [op EXCEPT !.done = TRUE,
                        !.ret = validate_image_file(op.content, op.filename)]
    /\ UNCHANGED <<users, images, analyses, allergens, detections, files,
                   nextId, nextUuid>>

NextValidate == ValidateImageFile

SpecValidate == InitValidate /\ [][NextValidate]_vars

-----------------------------------------------------------------------------
(* Claims about validate_image_file *)

\* The file name ends, whatever the case of its letters, with an allowed
\* extension that follows a non-empty stem of its last component
ExtensionAllowed(filename) ==
    \E e \in ALLOWED_EXTENSIONS :
        /\ Len(filename) > Len(e)
        /\ Lower(SubSeq(filename, Len(filename) - Len(e) + 1, Len(filename))) = e
        /\ filename[Len(filename) - Len(e)] # "/"

Validated == op.name = "validate_image_file" /\ op.done

\* C1: validate_image_file returns False for every content longer than
\* MAX_FILE_SIZE and for every file name whose extension is not in the
\* allow-list, whatever the bytes hold.
C1_OversizeOrBadExtensionRejected ==
    Validated /\ (op.content.len > MAX_FILE_SIZE \/ ~ExtensionAllowed(op.filename))
        => op.ret = FALSE

\* An image of one byte too many under an allowed name is rejected
C1_Witness ==
    /\ Validated
    /\ op.content.kind = "image"
    /\ op.content.len = MAX_FILE_SIZE + 1
    /\ ExtensionAllowed(op.filename)
    /\ op.ret = FALSE

\* C2: validate_image_file returns True if and only if the content is at most
\* 10 MB, the extension compared case-insensitively is an allowed one, and the
\* bytes decode as an image; the decoded format need not match the extension.
C2_AcceptedIffWithinRules ==
    Validated =>
        (op.ret = TRUE <=>
            /\ op.content.len <= 10 * 1024 * 1024
            /\ ExtensionAllowed(op.filename)
            /\ op.content.kind = "image")

\* A JPEG of exactly 10 MB named a.PnG is accepted
C2_Witness ==
    /\ Validated
    /\ op.content.len = 10 * 1024 * 1024
    /\ op.content.format = "JPEG"
    /\ op.filename = <<"a",".","P","n","G">>
    /\ op.ret = TRUE

-----------------------------------------------------------------------------
(* Uploads on their own: one call of save_image or of create_food_image,   *)
(* its arguments drawn from every content and file name                    *)

\* The file system after a file is written at file.path
WriteFile(fs, file) == {f \in fs : f.path # file.path} \cup {file}

\* The file written by a save_image that returned `saved`
FileOf(saved) ==
    [path   |-> saved.file_path,
     mode   |-> saved.file.mode,
     format |-> saved.file.format,
     width  |-> saved.file.width,
     height |-> saved.file.height]

\* The FoodImage row create_food_image builds from what save_image returned
FoodImageRow(id, user_id, original_filename, saved) ==
    [id                |-> id,
     filename          |-> saved.filename,
     original_filename |-> original_filename,
     file_path         |-> saved.file_path,
     width             |-> saved.width,
     height            |-> saved.height,
     user_id           |-> user_id]

\* A direct call of FileService.save_image, as the tests make it
SaveImageCall(content, original_filename) ==
    LET saved == save_image(content, original_filename, nextUuid)
    IN  /\ nextUuid' = nextUuid + 1
        /\ files' = IF saved.raised THEN files ELSE WriteFile(files, FileOf(saved))
        /\ op' = [name     |-> "save_image",
                  content  |-> content,
                  filename |-> original_filename,
                  done     |-> TRUE,
                  raised   |-> saved.raised,
                  ret      |-> IF saved.raised THEN None ELSE saved]
        /\ UNCHANGED <<users, images, analyses, allergens, detections, nextId>>

\* FoodImage.user_id is a foreign key to users.id: the insert of a row is
\* refused (IntegrityError at commit) when no User row has that id
FoodImageInsertAllowed(us, row) == \E u \in us : u.id = row.user_id

\* UserService.create_food_image: validate, save the file, insert the row;
\* None when validation fails or anything after it raises. The except branch
\* only logs: a file save_image has written stays when the insert raises.
CreateFoodImageCall(user_id, content, original_filename) ==
    IF ~validate_image_file(content, original_filename)
    THEN /\ op' = [name     |-> "create_food_image",
                   user_id  |-> user_id,
                   content  |-> content,
                   filename |-> original_filename,
                   done     |-> TRUE,
                   valid    |-> FALSE,
                   ret      |-> None]
         /\ UNCHANGED <<users, images, analyses, allergens, detections, files,
                        nextId, nextUuid>>
    ELSE LET saved == save_image(content, original_filename, nextUuid)
             row   == FoodImageRow(nextId["food_images"], user_id,
                                   original_filename, saved)
             inserted == ~saved.raised /\ FoodImageInsertAllowed(users, row)
         IN  /\ nextUuid' = nextUuid + 1
             /\ files' = IF saved.raised THEN files
                         ELSE WriteFile(files, FileOf(saved))
             /\ images' = IF inserted THEN images \cup {row} ELSE images
             /\ nextId' = IF inserted
                          THEN [nextId EXCEPT !["food_images"] = @ + 1]
                          ELSE nextId
             /\ op' = [name     |-> "create_food_image",
                       user_id  |-> user_id,
                       content  |-> content,
                       filename |-> original_filename,
                       done     |-> TRUE,
                       valid    |-> TRUE,
                       ret      |-> IF inserted THEN row ELSE None]
             /\ UNCHANGED <<users, analyses, allergens, detections>>

\* The user the upload page works for
FirstUser == [id |-> 1, name |-> "Demo User", email |-> "demo@foodanalyzer.com"]

InitUpload ==
    /\ users = {FirstUser}
    /\ images = {}
    /\ analyses = {}
    /\ allergens = {}
    /\ detections = {}
    /\ files = {}
    /\ nextId = [t \in Tables |-> IF t = "users" THEN 2 ELSE 1]
    /\ nextUuid = 1
    /\ \E name \in {"save_image", "create_food_image"},
          content \in Contents, filename \in FileNames :
          op = [name     |-> name,
                content  |-> content,
                filename |-> filename,
                done     |-> FALSE]

SaveImagePending ==
    /\ op.name = "save_image"
    /\ ~op.done
    /\ SaveImageCall(op.content, op.filename)

CreateFoodImagePending ==
    /\ op.name = "create_food_image"
    /\ ~op.done
    /\ CreateFoodImageCall(FirstUser.id, op.content, op.filename)

NextUpload == SaveImagePending \/ CreateFoodImagePending

SpecUpload == InitUpload /\ [][NextUpload]_vars

-----------------------------------------------------------------------------
(* An upload for any user id, whether or not a User row has it *)

UploadUserIds == 1..nextId["users"]

InitInsert ==
    /\ users = {FirstUser}
    /\ images = {}
    /\ analyses = {}
    /\ allergens = {}
    /\ detections = {}
    /\ files = {}
    /\ nextId = [t \in Tables |-> IF t = "users" THEN 2 ELSE 1]
    /\ nextUuid = 1
    /\ \E user_id \in UploadUserIds, content \in Contents, filename \in FileNames :
          op = [name     |-> "create_food_image",
                user_id  |-> user_id,
                content  |-> content,
                filename |-> filename,
                done     |-> FALSE]

CreateFoodImageFor ==
    /\ ~op.done
    /\ CreateFoodImageCall(op.user_id, op.content, op.filename)

NextInsert == CreateFoodImageFor

SpecInsert == InitInsert /\ [][NextInsert]_vars

-----------------------------------------------------------------------------
(* Claims about save_image *)

WithinMax(w, h) == w <= 2048 /\ h <= 2048

\* C3: the width and height save_image returns, and that create_food_image
\* stores on the FoodImage row, never exceed 2048 x 2048, for any input
\* dimensions; an image already within the maximum keeps its dimensions.
C3_DimensionsWithinMax ==
    /\ op.name = "save_image" /\ op.done /\ ~op.raised =>
          /\ WithinMax(op.ret.width, op.ret.height)
          /\ WithinMax(op.content.width, op.content.height) =>
                /\ op.ret.width = op.content.width
                /\ op.ret.height = op.content.height
    /\ \A img \in images :
          /\ WithinMax(img.width, img.height)
          /\ op.name = "create_food_image" /\ op.done
                /\ WithinMax(op.content.width, op.content.height) =>
                /\ img.width = op.content.width
                /\ img.height = op.content.height

\* A 2049 x 3000 upload is stored with a row of 1399 x 2048
C3_Witness ==
    /\ op.name = "create_food_image" /\ op.done
    /\ op.content.width = 2049 /\ op.content.height = 3000
    /\ \E img \in images : img.width = 1399 /\ img.height = 2048

\* The colour modes that carry an alpha channel
AlphaModes == {"RGBA", "LA"}

\* C4: for every input colour mode, the file written by save_image carries no
\* alpha channel.
C4_NoAlphaChannelWritten ==
    \A f \in files : f.mode \notin AlphaModes

-----------------------------------------------------------------------------
(* UserService: users *)

\* How many rows each table may come to hold in a run
MaxUsers == 2

\* select(User).where(User.email == email) ... .first() when no row matches
get_user_by_email_never_found(us, email) == None

\* UserService.get_user_by_email: the row with that email, None without one
get_user_by_email(us, email) ==
    IF \E u \in us : u.email = email
    THEN CHOOSE u \in us : u.email = email
    ELSE None

\* users.email is unique: an insert of a second row with an email raises
\* IntegrityError at commit
UserInsertAllowed(us, row) == \A u \in us : u.email # row.email

\* UserService.create_user: [users, raised, ret] after the insert and commit
create_user(us, id, name, email) ==
    LET user == [id |-> id, name |-> name, email |-> email]
    IN  IF UserInsertAllowed(us, user)
        THEN [users |-> us \cup {user}, raised |-> FALSE, ret |-> user]
        ELSE [users |-> us, raised |-> TRUE, ret |-> None]

\* UserService.get_or_create_user: the row found by email, else a new one
get_or_create_user(us, id, email, name) ==
    LET user == get_user_by_email(us, email)
    IN  IF user # None
        THEN [users |-> us, raised |-> FALSE, ret |-> user]
        ELSE create_user(us, id, name, email)

Emails == {"ann@example.com", "bob@example.com", "new@test.com"}

Names == {"New User", "Different Name"}

\* What a call that may insert a user leaves behind
UserCallDone(call, r) ==
    /\ r.users # users => nextId["users"] <= MaxUsers
    /\ users' = r.users
    /\ nextId' = IF r.users = users THEN nextId
                 ELSE [nextId EXCEPT !["users"] = @ + 1]
    /\ op' = [name |-> call.name, email |-> call.email, user_name |-> call.user_name,
              done |-> TRUE, raised |-> r.raised, ret |-> r.ret]
    /\ UNCHANGED <<images, analyses, allergens, detections, files, nextUuid>>

CreateUser ==
    \E name \in Names, email \in Emails :
        /\ UserCallDone([name |-> "create_user", email |-> email, user_name |-> name],
                        create_user(users, nextId["users"], name, email))

GetOrCreateUser ==
    \E name \in Names, email \in Emails :
        /\ UserCallDone([name |-> "get_or_create_user", email |-> email,
                         user_name |-> name],
                        get_or_create_user(users, nextId["users"], email, name))

NextUsers == CreateUser \/ GetOrCreateUser

SpecUsers == Init /\ [][NextUsers]_vars

\* An update that no constraint checks
update_user_unchecked(us, user_id, update_dict) ==
    IF ~\E u \in us : u.id = user_id
    THEN [users |-> us, raised |-> FALSE, ret |-> None]
    ELSE LET user    == CHOOSE u \in us : u.id = user_id
             updated == [user EXCEPT
                           !.name  = IF "name" \in DOMAIN update_dict
                                     THEN update_dict.name ELSE @,
                           !.email = IF "email" \in DOMAIN update_dict
                                     THEN update_dict.email ELSE @]
         IN  [users |-> (us \ {user}) \cup {updated}, raised |-> FALSE,
              ret |-> updated]

\* UserService.update_user: None without a row of that id; else the fields
\* the caller set are assigned and committed.  update_dict is
\* user_data.model_dump(exclude_unset=True).  The commit raises IntegrityError
\* when another row carries the new email, and the row stays as it was.
update_user(us, user_id, update_dict) ==
    IF ~\E u \in us : u.id = user_id
    THEN [users |-> us, raised |-> FALSE, ret |-> None]
    ELSE LET user    == CHOOSE u \in us : u.id = user_id
             updated == [user EXCEPT
                           !.name  = IF "name" \in DOMAIN update_dict
                                     THEN update_dict.name ELSE @,
                           !.email = IF "email" \in DOMAIN update_dict
                                     THEN update_dict.email ELSE @]
         IN  IF UserInsertAllowed(us \ {user}, updated)
             THEN [users |-> (us \ {user}) \cup {updated}, raised |-> FALSE,
                   ret |-> updated]
             ELSE [users |-> us, raised |-> TRUE, ret |-> None]

\* What a caller may set: the name, the email, both, or nothing
UserUpdates ==
    {[name |-> n] : n \in Names}
    \cup {[email |-> e] : e \in Emails}
    \cup {[name |-> n, email |-> e] : n \in Names, e \in Emails}
    \cup {<<>>}

UpdateUser ==
    \E user_id \in 1..nextId["users"], update_dict \in UserUpdates :
        LET r == update_user(users, user_id, update_dict)
        IN  /\ users' = r.users
            /\ op' = [name        |-> "update_user",
                      user_id     |-> user_id,
                      update_dict |-> update_dict,
                      done        |-> TRUE,
                      raised      |-> r.raised,
                      ret         |-> r.ret]
            /\ UNCHANGED <<images, analyses, allergens, detections, files,
                           nextId, nextUuid>>

NextAccounts == CreateUser \/ GetOrCreateUser \/ UpdateUser

SpecAccounts == Init /\ [][NextAccounts]_vars

-----------------------------------------------------------------------------
(* Claims about users *)

\* C5: get_or_create_user is idempotent by email: a call with an email that a
\* User row already carries returns that row's id, creates no second row and
\* leaves the stored name unchanged, whatever name the call passes.
C5_GetOrCreateIdempotent ==
    [][\A u \in users :
          op'.name = "get_or_create_user" /\ op'.email = u.email =>
              /\ ~op'.raised
              /\ op'.ret.id = u.id
              /\ op'.ret.name = u.name
              /\ users' = users]_vars

\* A second call with the first call's email and another name has returned
\* the one row there is, under its first name
C5_Witness ==
    /\ op.name = "get_or_create_user"
    /\ ~op.raised
    /\ op.user_name = "Different Name"
    /\ op.ret.name = "New User"
    /\ users = {op.ret}

-----------------------------------------------------------------------------
(* FileService on its own: saves and deletes in the upload directory *)

\* How many files a run saves
MaxFiles == 2

FileAt(fs, path) == \E f \in fs : f.path = path

\* delete_image reporting success whatever unlink did
delete_image_always_true(fs, path, refused) ==
    [files |-> IF refused THEN fs ELSE {f \in fs : f.path # path}, ret |-> TRUE]

\* FileService.delete_image: Path(file_path).unlink(missing_ok=True) removes the
\* file, and a missing file is no error; `refused` says that unlink raised
\* something else (PermissionError, NotADirectoryError for a path below a
\* regular file, ValueError for a NUL in the path), which is caught and
\* reported as False
delete_image(fs, path, refused) ==
    IF refused
    THEN [files |-> fs, ret |-> FALSE]
    ELSE [files |-> {f \in fs : f.path # path}, ret |-> TRUE]

\* A typical small upload, a picture with transparency, and bytes that hold no image
SmallContents ==
    { [kind |-> "image", len |-> 1024, format |-> "JPEG", mode |-> "RGB",
       width |-> 100, height |-> 100],
      [kind |-> "image", len |-> 1024, format |-> "PNG", mode |-> "RGBA",
       width |-> 3000, height |-> 2000],
      [kind |-> "bytes", len |-> 12, format |-> "none", mode |-> "none",
       width |-> 0, height |-> 0] }

SmallNames == { <<"t","e","s","t",".","j","p","g">>, <<"t","e","s","t",".","p","n","g">> }

\* A path nothing was ever saved at
NonexistentPath == [dir |-> "/nonexistent/path", uuid |-> 0, ext |-> <<".","j","p","g">>]

\* The paths handed out so far, and one never written
KnownPaths ==
    { UploadPath(u, Lower(PathSuffix(n))) : u \in 1..(nextUuid - 1), n \in SmallNames }
        \cup {NonexistentPath}

SaveImage ==
    \E content \in SmallContents, filename \in SmallNames :
        /\ nextUuid <= MaxFiles
        /\ SaveImageCall(content, filename)

DeleteImage ==
    \E path \in KnownPaths, refused \in BOOLEAN :
        LET r == delete_image(files, path, refused)
        IN  /\ files' = r.files
            /\ op' = [name    |-> "delete_image",
                      path    |-> path,
                      existed |-> FileAt(files, path),
                      repeat  |-> (op.name = "delete_image" /\ op.path = path
                                      /\ op.existed /\ op.ret = TRUE),
                      refused |-> refused,
                      done    |-> TRUE,
                      raised  |-> FALSE,
                      ret     |-> r.ret]
            /\ UNCHANGED <<users, images, analyses, allergens, detections,
                           nextId, nextUuid>>

NextFiles == SaveImage \/ DeleteImage

SpecFiles == Init /\ [][NextFiles]_vars

\* get_image_path answering with the path whether or not the file exists
get_image_path_unchecked(fs, filename) == UploadPath(filename.uuid, filename.ext)

\* FileService.get_image_path: UPLOAD_DIR / filename if that exists, else None
get_image_path(fs, filename) ==
    LET file_path == UploadPath(filename.uuid, filename.ext)
    IN  IF FileAt(fs, file_path) THEN file_path ELSE None

\* The file names handed out so far, and one never written
KnownNames ==
    { [uuid |-> u, ext |-> Lower(PathSuffix(n))] : u \in 1..(nextUuid - 1), n \in SmallNames }
        \cup {[uuid |-> 0, ext |-> <<".","j","p","g">>]}

\* What the call before this one did to the file of that name: "saved" after
\* the save_image that returned the name, "deleted" or "refused" after a
\* delete_image of its path that returned True or False, else "other"
Before(filename) ==
    LET file_path == UploadPath(filename.uuid, filename.ext)
    IN  IF op.name = "save_image" /\ ~op.raised /\ op.ret.filename = filename
        THEN "saved"
        ELSE IF op.name = "delete_image" /\ op.path = file_path
        THEN (IF op.ret THEN "deleted" ELSE "refused")
        ELSE "other"

GetImagePath ==
    \E filename \in KnownNames :
        /\ op' = [name     |-> "get_image_path",
                  filename |-> filename,
                  before   |-> Before(filename),
                  done     |-> TRUE,
                  raised   |-> FALSE,
                  ret      |-> get_image_path(files, filename)]
        /\ UNCHANGED <<users, images, analyses, allergens, detections, files,
                       nextId, nextUuid>>

NextPaths == SaveImage \/ DeleteImage \/ GetImagePath

SpecPaths == Init /\ [][NextPaths]_vars

-----------------------------------------------------------------------------
(* Claims about delete_image *)

\* C9 as claimed: delete_image never raises, returns True for a path at which
\* no file exists, and deleting the same path twice returns True both times
\* with the file absent after each call: every call returns True and leaves
\* no file at the path.
C9_DeleteAlwaysTrue ==
    op.name = "delete_image" =>
        /\ ~op.raised
        /\ op.ret = TRUE
        /\ ~FileAt(files, op.path)

\* C9, amended: delete_image never raises.  Unless unlink is refused with an
\* error other than file-not-found, it returns True, for a missing file as for
\* one it removes, and no file is left at the path, so a second delete of the
\* path returns True again.  When unlink is refused it returns False and the
\* upload directory is as before.  It returns True only with the file absent.
C9_DeleteTrueUnlessRefused ==
    [][op'.name = "delete_image" =>
          /\ ~op'.raised
          /\ ~op'.refused => op'.ret = TRUE /\ ~FileAt(files', op'.path)
          /\ op'.refused => op'.ret = FALSE /\ files' = files
          /\ op'.ret = TRUE => ~FileAt(files', op'.path)
          /\ (op.name = "delete_image" /\ op.path = op'.path /\ op.ret = TRUE
                /\ ~op'.refused) => op'.ret = TRUE /\ files' = files]_vars

\* The second of two deletes of a path that held a file: the first removed the
\* file, the second found none, and both returned True
C9_Witness ==
    /\ op.name = "delete_image"
    /\ op.repeat
    /\ ~op.existed
    /\ op.ret = TRUE
    /\ ~FileAt(files, op.path)

-----------------------------------------------------------------------------
(* NutritionAnalysisService: the classifier's response and what is stored *)

List(l) == [list |-> l]
Dict(d) == [dict |-> d]

\* dict.get(key, default)
Get(v, default) == IF v = Absent THEN default ELSE v

\* Python truth of a value: a number other than 0, a non-empty text
Truthy(v) ==
    CASE IsNum(v) -> v.num # 0
      [] IsText(v) -> v.text # <<>>
      [] OTHER -> FALSE

\* A statement that raised instead of yielding a value
Raise == [raise |-> TRUE]

\* An error text and its number of characters
Message(s, n) == [message |-> s, len |-> n]

\* str(e) of decimal.InvalidOperation, raised by Decimal(str(v)) for a v that
\* is no number, and of the AttributeError raised by None.lower()
ConversionSyntax == Message("[<class 'decimal.ConversionSyntax'>]", 36)
NoLowerAttribute == Message("'NoneType' object has no attribute 'lower'", 42)

\* The text stored when the classifier returned nothing
FailedToAnalyze == Message("Failed to analyze image with AI", 31)

\* str(e)[:1000]: the text stands for its first n characters
Truncate(m, n) == IF m.len > n THEN [m EXCEPT !.len = n] ELSE m

\* Decimal(str(v)): the number, or an exception for anything else
ToDecimal(v) == IF IsNum(v) THEN v ELSE Raise

\* Decimal product and quotient, in hundredths (exact on the values used here)
DecMul(a, b) == Num((a.num * b.num) \div 100)
DecDiv(a, b) == Num((a.num * 100) \div b.num)

\* The nutrient columns, in the order _update_analysis_with_results sets them
NutritionFields ==
    <<"calories", "protein_g", "carbohydrates_g", "total_fat_g",
      "saturated_fat_g", "fiber_g", "sugar_g", "sodium_mg">>

\* NutritionalAnalysis(food_image_id=..., status=PROCESSING, ai_model_used=...):
\* the row as analyze_food_image first commits it
NewAnalysis(id, food_image_id) ==
    [id                  |-> id,
     food_image_id       |-> food_image_id,
     status              |-> "processing",
     food_items          |-> List(<<>>),
     confidence_score    |-> None,
     calories            |-> None,
     protein_g           |-> None,
     carbohydrates_g     |-> None,
     total_fat_g         |-> None,
     saturated_fat_g     |-> None,
     fiber_g             |-> None,
     sugar_g             |-> None,
     sodium_mg           |-> None,
     estimated_portion_g |-> None,
     total_calories      |-> None,
     vitamins            |-> Dict({}),
     minerals            |-> Dict({}),
     ai_model_used       |-> "food-vision-ai",
     error_message       |-> None]

\* nutrition.get(field), with nutrition = result.get("nutritional_info", {})
NutritionGet(result, field) ==
    IF result.nutritional_info = Absent THEN Absent
    ELSE result.nutritional_info[field]

\* Decimal(str(nutrition.get(f, 0))) if nutrition.get(f) else None
NutrientValue(v) == IF Truthy(v) THEN ToDecimal(Get(v, Num(0))) ELSE None

\* Assignments made in order, up to the first one that raises
RECURSIVE AssignAll(_, _)
AssignAll(row, assigns) ==
    IF assigns = <<>>
    THEN [row |-> row, raised |-> FALSE]
    ELSE LET a == Head(assigns)
         IN  IF a.value = Raise
             THEN [row |-> row, raised |-> TRUE]
             ELSE AssignAll([row EXCEPT ![a.field] = a.value], Tail(assigns))

\* _update_analysis_with_results lines 114-117: the portion and the total,
\* set only if the portion and the stored calories are both truthy
PortionAssigns(row, result) ==
    LET portion_g == Get(result.estimated_portion_g, None)
    IN  IF Truthy(portion_g) /\ Truthy(row.calories)
        THEN <<[field |-> "estimated_portion_g", value |-> ToDecimal(portion_g)],
               [field |-> "total_calories",
                value |-> IF IsNum(portion_g)
                          THEN DecDiv(DecMul(row.calories, portion_g), Num(10000))
                          ELSE Raise]>>
        ELSE <<>>

\* NutritionAnalysisService._update_analysis_with_results: [row, raised]
update_analysis_with_results(analysis, result) ==
    LET first ==
            AssignAll(analysis,
                <<[field |-> "food_items", value |-> Get(result.food_items, List(<<>>))],
                  [field |-> "confidence_score",
                   value |-> ToDecimal(Get(result.confidence_score, Num(0)))]>>
                \o [i \in 1..Len(NutritionFields) |->
                      [field |-> NutritionFields[i],
                       value |-> NutrientValue(NutritionGet(result, NutritionFields[i]))]])
        second ==
            AssignAll(first.row,
                PortionAssigns(first.row, result)
                \o <<[field |-> "vitamins", value |-> Get(result.vitamins, Dict({}))],
                     [field |-> "minerals", value |-> Get(result.minerals, Dict({}))]>>)
    IN  IF first.raised THEN first ELSE second

\* A strip() that strips nothing
Strip_nothing(s) == s

\* str.strip(): without the blanks at either end
RECURSIVE Strip(_)
Strip(s) ==
    IF s = <<>> THEN s
    ELSE IF Head(s) = " " THEN Strip(Tail(s))
    ELSE IF s[Len(s)] = " " THEN Strip(SubSeq(s, 1, Len(s) - 1))
    ELSE s

\* A lookup that finds no allergen
AllergenNamed_never_found(as, name) == None

\* select(Allergen).where(Allergen.name == name) ... .first()
AllergenNamed(as, name) ==
    IF \E a \in as : a.name = name
    THEN CHOOSE a \in as : a.name = name
    ELSE None

\* NutritionAnalysisService._create_allergen_detections, from entry i on.
\* st holds the allergens table, the detections added so far, the next ids and
\* whether a statement raised and with what text (a name that is no text has
\* no lower(), a confidence that is no number makes Decimal raise).
RECURSIVE create_allergen_detections(_, _, _, _)
create_allergen_detections(st, analysis_id, detected, i) ==
    IF i > Len(detected) \/ st.raised
    THEN st
    ELSE LET data     == detected[i]
             name     == Get(data.name, Text(<<>>))
             stripped == Strip(Lower(name.text))
             found    == AllergenNamed(st.allergens, stripped)
             allergen == IF found # None THEN found
                         ELSE [id |-> st.nextAllergen, name |-> stripped,
                               severity_level |-> "moderate"]
             withAll  == [st EXCEPT
                            !.allergens = @ \cup {allergen},
                            !.nextAllergen = IF found # None THEN @ ELSE @ + 1]
             conf     == ToDecimal(Get(data.confidence, Num(50)))
         IN  IF ~IsText(name)
             THEN [st EXCEPT !.raised = TRUE, !.error = NoLowerAttribute]
             ELSE IF stripped = <<>>
             THEN create_allergen_detections(st, analysis_id, detected, i + 1)
             ELSE IF conf = Raise
             THEN [withAll EXCEPT !.raised = TRUE, !.error = ConversionSyntax]
             ELSE create_allergen_detections(
                     [withAll EXCEPT
                        !.detections = @ \cup
                            {[id                      |-> st.nextDetection,
                              nutritional_analysis_id |-> analysis_id,
                              allergen_id             |-> allergen.id,
                              confidence_score        |-> conf,
                              detected_in             |-> Get(data.detected_in, None)]},
                        !.nextDetection = @ + 1],
                     analysis_id, detected, i + 1)



\* `if analysis_result:` is false for None and for a dict without any key
IsEmptyResult(result) ==
    \/ result = None
    \/ \A k \in DOMAIN result : result[k] = Absent

\* An insert that no constraint checks
AnalysisInsertAllowed_unconstrained(as, row) == TRUE

\* NutritionalAnalysis.food_image_id is unique: a second analysis row for an
\* image raises IntegrityError at commit
AnalysisInsertAllowed(as, row) == \A a \in as : a.food_image_id # row.food_image_id

\* _analyze_with_ai handing the response on without reading the file
analyze_with_ai_unread(fs, image_path, response) == response

\* NutritionAnalysisService._analyze_with_ai: None when the file cannot be read,
\* else what the classifier returned (None when it raised)
analyze_with_ai(fs, image_path, response) ==
    IF FileAt(fs, image_path) THEN response ELSE None

\* analyze_food_image from the classifier call on (lines 35-69), for the
\* committed row `analysis`: the row as last committed, the allergens and
\* detections tables and their next ids
finish_analysis(analysis, result, st) ==
    IF IsEmptyResult(result)
    THEN [st EXCEPT !.analysis =
            [analysis EXCEPT !.status = "failed",
                             !.error_message = FailedToAnalyze]]
    ELSE LET upd == update_analysis_with_results(analysis, result)
             det == create_allergen_detections(st, analysis.id,
                        Get(result.allergens, List(<<>>)).list, 1)
         IN  IF upd.raised
             THEN [st EXCEPT !.analysis =
                     [upd.row EXCEPT !.status = "failed",
                                     !.error_message = Truncate(ConversionSyntax, 1000)]]
             ELSE IF det.raised
             THEN [det EXCEPT !.raised = FALSE, !.analysis =
                     [upd.row EXCEPT !.status = "failed",
                                     !.error_message = Truncate(det.error, 1000)]]
             ELSE [det EXCEPT !.analysis = [upd.row EXCEPT !.status = "completed"]]

\* NutritionAnalysisService.analyze_food_image
AnalyzeFoodImageCall(food_image_id, response) ==
    LET call == [name |-> "analyze_food_image", food_image_id |-> food_image_id,
                 response |-> response, done |-> TRUE]
        analysis == NewAnalysis(nextId["nutritional_analyses"], food_image_id)
    IN  IF ~\E img \in images : img.id = food_image_id
        THEN /\ op' = call @@ [raised |-> FALSE, ret |-> None]
             /\ UNCHANGED <<users, images, analyses, allergens, detections, files,
                            nextId, nextUuid>>
        ELSE IF ~AnalysisInsertAllowed(analyses, analysis)
        THEN /\ op' = call @@ [raised |-> TRUE, ret |-> None]
             /\ UNCHANGED <<users, images, analyses, allergens, detections, files,
                            nextId, nextUuid>>
        ELSE LET food_image == CHOOSE img \in images : img.id = food_image_id
                 st == finish_analysis(analysis,
                          analyze_with_ai(files, food_image.file_path, response),
                          [analysis      |-> analysis,
                           allergens     |-> allergens,
                           detections    |-> detections,
                           nextAllergen  |-> nextId["allergens"],
                           nextDetection |-> nextId["allergen_detections"],
                           raised        |-> FALSE,
                           error         |-> None])
             IN  /\ analyses' = analyses \cup {st.analysis}
                 /\ allergens' = st.allergens
                 /\ detections' = st.detections
                 /\ nextId' = [nextId EXCEPT
                                 !["nutritional_analyses"] = @ + 1,
                                 !["allergens"] = st.nextAllergen,
                                 !["allergen_detections"] = st.nextDetection]
                 /\ op' = call @@ [raised |-> FALSE, ret |-> st.analysis]
                 /\ UNCHANGED <<users, images, files, nextUuid>>


-----------------------------------------------------------------------------
(* Classifier responses *)

Dairy == <<"d","a","i","r","y">>

\* AIClient.analyze_food_image: the sample response, decimals in hundredths
SampleResponse ==
    [food_items          |-> List(<<"mixed salad", "grilled chicken">>),
     confidence_score    |-> Num(85),
     nutritional_info    |-> [calories        |-> Num(18500),
                              protein_g       |-> Num(2530),
                              carbohydrates_g |-> Num(820),
                              total_fat_g     |-> Num(610),
                              saturated_fat_g |-> Num(140),
                              fiber_g         |-> Num(320),
                              sugar_g         |-> Num(410),
                              sodium_mg       |-> Num(32000)],
     estimated_portion_g |-> Num(25000),
     vitamins            |-> Dict({<<"vitamin_c_mg", 3520>>, <<"vitamin_a_iu", 125000>>,
                                   <<"folate_mcg", 6500>>}),
     minerals            |-> Dict({<<"calcium_mg", 8500>>, <<"iron_mg", 280>>,
                                   <<"potassium_mg", 42000>>}),
     allergens           |-> List(<<[name        |-> Text(Dairy),
                                     confidence  |-> Num(20),
                                     detected_in |-> Text(<<"possible dressing">>)]>>)]

\* A response without any key
EmptyResponse == [k \in DOMAIN SampleResponse |-> Absent]

AllergenEntry(name, confidence) ==
    [name |-> name, confidence |-> confidence, detected_in |-> Absent]

\* What a classifier may report as allergens: nothing, one allergen, one name
\* in three spellings, a blank name, an entry whose confidence is no number
\* after a good one, an entry without a name
AllergenLists ==
    { Absent,
      List(<<>>),
      SampleResponse.allergens,
      List(<<AllergenEntry(Text(<<"D","a","i","r","y">>), Num(90)),
             AllergenEntry(Text(<<" ","d","a","i","r","y"," ">>), Absent),
             AllergenEntry(Text(Dairy), Num(150))>>),
      List(<<AllergenEntry(Text(<<" ">>), Num(50))>>),
      List(<<AllergenEntry(Text(<<"n","u","t","s">>), Num(70)),
             AllergenEntry(Text(<<"s","o","y">>), Text(<<"high">>))>>),
      List(<<AllergenEntry(None, Num(50))>>) }

Response(calories, portion, confidence, allergenList) ==
    [SampleResponse EXCEPT !.nutritional_info.calories = calories,
                           !.estimated_portion_g = portion,
                           !.confidence_score = confidence,
                           !.allergens = allergenList]

\* Responses that vary the calories, the portion, the confidence and the
\* allergens; a response without keys; no response
AnalyzeResponses ==
    { Response(c, p, cf, al) :
        c \in {Absent, Num(0), Num(18500)},
        p \in {Absent, Num(0), Num(25000)},
        cf \in {Absent, Num(85), Num(150), Text(<<"high">>)},
        al \in AllergenLists }
    \cup {EmptyResponse, None}

-----------------------------------------------------------------------------
(* Analyses on their own: one call of analyze_food_image for a stored image *)
(* or for an id without a row, over every response                          *)

\* What a valid upload of the first user has left: its row and its file
FirstUpload ==
    save_image(CHOOSE c \in SmallContents : c.format = "JPEG",
               <<"t","e","s","t",".","j","p","g">>, 1)

InitAnalyze ==
    /\ users = {FirstUser}
    /\ images = {FoodImageRow(1, FirstUser.id, <<"t","e","s","t",".","j","p","g">>,
                              FirstUpload)}
    /\ files = {FileOf(FirstUpload)}
    /\ analyses = {}
    /\ allergens = {}
    /\ detections = {}
    /\ nextId = [t \in Tables |-> IF t \in {"users", "food_images"} THEN 2 ELSE 1]
    /\ nextUuid = 2
    /\ \E food_image_id \in {1, 2}, response \in AnalyzeResponses :
          op = [name          |-> "analyze_food_image",
                food_image_id |-> food_image_id,
                response      |-> response,
                done          |-> FALSE]

AnalyzeFoodImagePending ==
    /\ op.name = "analyze_food_image"
    /\ ~op.done
    /\ AnalyzeFoodImageCall(op.food_image_id, op.response)

NextAnalyze == AnalyzeFoodImagePending

SpecAnalyze == InitAnalyze /\ [][NextAnalyze]_vars

-----------------------------------------------------------------------------
(* Claims about the stored analysis *)

\* The analysis row of the image the last call was for
AnalysisOf(food_image_id) == CHOOSE a \in analyses : a.food_image_id = food_image_id

Analyzed ==
    /\ op.name = "analyze_food_image" /\ op.done /\ ~op.raised
    /\ \E a \in analyses : a.food_image_id = op.food_image_id

\* C6: for every classifier response, the stored total_calories equals
\* calories * estimated_portion_g / 100 whenever the response carries both a
\* calories value and a portion value (including a value of 0), and
\* total_calories is unset otherwise.
C6_TotalCaloriesFromBoth ==
    Analyzed /\ AnalysisOf(op.food_image_id).status = "completed" =>
        LET calories == op.response.nutritional_info.calories
            portion  == op.response.estimated_portion_g
            total    == AnalysisOf(op.food_image_id).total_calories
        IN  IF IsNum(calories) /\ IsNum(portion)
            THEN total = Num((calories.num * portion.num) \div 10000)
            ELSE total = None

-----------------------------------------------------------------------------
(* The services together: users, uploads, analyses and deletes *)

\* How many images a run uploads
MaxImages == 1

\* delete_food_image selecting the image by id alone
delete_food_image_any_owner(imgs, as, fs, image_id, user_id, refused) ==
    IF ~\E img \in imgs : img.id = image_id
    THEN [images |-> imgs, files |-> fs, raised |-> FALSE, ret |-> FALSE]
    ELSE LET food_image == CHOOSE img \in imgs : img.id = image_id
             unlinked   == delete_image(fs, food_image.file_path, refused).files
         IN  IF \E a \in as : a.food_image_id = food_image.id
             THEN [images |-> imgs, files |-> unlinked, raised |-> TRUE, ret |-> FALSE]
             ELSE [images |-> imgs \ {food_image}, files |-> unlinked,
                   raised |-> FALSE, ret |-> TRUE]

\* delete_food_image in a store that lets an image go while an analysis
\* references it
delete_food_image_unconstrained(imgs, as, fs, image_id, user_id, refused) ==
    IF ~\E img \in imgs : img.id = image_id /\ img.user_id = user_id
    THEN [images |-> imgs, files |-> fs, raised |-> FALSE, ret |-> FALSE]
    ELSE LET food_image == CHOOSE img \in imgs : img.id = image_id /\ img.user_id = user_id
             unlinked   == delete_image(fs, food_image.file_path, refused).files
         IN  [images |-> imgs \ {food_image}, files |-> unlinked,
              raised |-> FALSE, ret |-> TRUE]

\* UserService.delete_food_image: False without a row of that id and owner;
\* else the file is unlinked (the result of delete_image is dropped) and the row
\* deleted.  The commit raises IntegrityError when an analysis references the
\* image: the ORM then sets nutritional_analyses.food_image_id, which is not
\* nullable, to NULL; the session rolls back and the row stays, the file does
\* not come back.
delete_food_image(imgs, as, fs, image_id, user_id, refused) ==
    IF ~\E img \in imgs : img.id = image_id /\ img.user_id = user_id
    THEN [images |-> imgs, files |-> fs, raised |-> FALSE, ret |-> FALSE]
    ELSE LET food_image == CHOOSE img \in imgs : img.id = image_id /\ img.user_id = user_id
             unlinked   == delete_image(fs, food_image.file_path, refused).files
         IN  IF \E a \in as : a.food_image_id = food_image.id
             THEN [images |-> imgs, files |-> unlinked, raised |-> TRUE, ret |-> FALSE]
             ELSE [images |-> imgs \ {food_image}, files |-> unlinked,
                   raised |-> FALSE, ret |-> TRUE]

\* A typical upload and bytes that hold no image, under an allowed name and
\* under a name that is not allowed
MainContents == {c \in SmallContents : c.format # "PNG"}

MainNames == { <<"t","e","s","t",".","j","p","g">>, <<"t","e","s","t",".","t","x","t">> }

\* The emails a browser's storage may hold: the default and another user's
PageEmails == {FirstUser.email, "ann@example.com"}

\* main_page lines 19-24: the page gets or creates its user on every visit
MainPage ==
    \E email \in PageEmails :
        UserCallDone([name |-> "get_or_create_user", email |-> email,
                      user_name |-> FirstUser.name],
                     get_or_create_user(users, nextId["users"], email, FirstUser.name))

\* The sample response, a response whose second allergen entry makes Decimal
\* raise, a response without calories, and no response
MainResponses ==
    { SampleResponse,
      Response(Num(18500), Num(25000), Num(85),
               List(<<AllergenEntry(Text(<<"n","u","t","s">>), Num(70)),
                      AllergenEntry(Text(Dairy), Text(<<"high">>))>>)),
      Response(Num(0), Num(25000), Num(85), Absent),
      None }

\* The ids handed out so far in a table, and the next one (which has no row)
IdsOf(table) == 1..nextId[table]

CreateFoodImage ==
    \E user \in users, content \in MainContents, filename \in MainNames :
        /\ validate_image_file(content, filename) => nextId["food_images"] <= MaxImages
        /\ CreateFoodImageCall(user.id, content, filename)

AnalyzeFoodImage ==
    \E food_image_id \in IdsOf("food_images"), response \in MainResponses :
        AnalyzeFoodImageCall(food_image_id, response)

DeleteFoodImage ==
    \E image_id \in IdsOf("food_images"), user_id \in IdsOf("users"),
       refused \in BOOLEAN :
        LET r == delete_food_image(images, analyses, files, image_id, user_id, refused)
        IN  /\ images' = r.images
            /\ files' = r.files
            /\ op' = [name      |-> "delete_food_image",
                      image_id  |-> image_id,
                      user_id   |-> user_id,
                      refused   |-> refused,
                      row       |-> IF \E img \in images : img.id = image_id
                                    THEN CHOOSE img \in images : img.id = image_id
                                    ELSE None,
                      done      |-> TRUE,
                      raised    |-> r.raised,
                      ret       |-> r.ret]
            /\ UNCHANGED <<users, analyses, allergens, detections, nextId, nextUuid>>

Next == MainPage \/ CreateFoodImage \/ AnalyzeFoodImage \/ DeleteFoodImage

Spec == Init /\ [][Next]_vars

-----------------------------------------------------------------------------
(* Claims about deletes and about the analyses table *)

\* The image row of the given id is stored
HasImage(image_id) == \E img \in images : img.id = image_id

\* C7: when delete_food_image returns True, the image row is gone and the
\* file at its file_path is gone from the upload directory, also when the
\* image has an analysis and when the file deletion fails.
C7_DeleteRemovesRowAndFile ==
    op.name = "delete_food_image" /\ ~op.raised /\ op.ret = TRUE =>
        /\ ~HasImage(op.image_id)
        /\ ~FileAt(files, op.row.file_path)

\* C8: delete_food_image for an image id that does not exist, or that belongs
\* to another user, returns False and changes no row and no file.
C8_DeleteOfForeignImageChangesNothing ==
    [][ /\ op'.name = "delete_food_image"
        /\ ~\E img \in images : img.id = op'.image_id /\ img.user_id = op'.user_id
        => /\ op'.ret = FALSE
           /\ ~op'.raised
           /\ UNCHANGED <<users, images, analyses, allergens, detections, files>> ]_vars

\* A user asked to delete the stored image of another user and got False
C8_Witness ==
    /\ op.name = "delete_food_image"
    /\ op.ret = FALSE
    /\ ~op.raised
    /\ \E img \in images : img.id = op.image_id /\ img.user_id # op.user_id
    /\ \E img \in images : img.id = op.image_id /\ FileAt(files, img.file_path)

\* C10: there is at most one NutritionalAnalysis row per FoodImage.
C10_OneAnalysisPerImage ==
    \A a, b \in analyses : a.food_image_id = b.food_image_id => a = b

\* A second analysis of an image that has one was refused by the constraint
C10_Witness ==
    /\ op.name = "analyze_food_image"
    /\ op.raised
    /\ \E a \in analyses : a.food_image_id = op.food_image_id

-----------------------------------------------------------------------------
(* analyze_food_image statement by statement: what the store holds after   *)
(* each commit of the call, and what the session of the call still holds   *)

\* session.commit() for the analysis row: the session's row replaces the
\* stored one
Committed(as, row) == {a \in as : a.id # row.id} \cup {row}

\* The except branch keeping the status it found
failed_row_status_kept(row, error) ==
    [row EXCEPT !.error_message = Truncate(error, 1000)]

\* analyze_food_image lines 65-66: the row as the except branch leaves it
failed_row(row, error) ==
    [row EXCEPT !.status = "failed", !.error_message = Truncate(error, 1000)]

\* A call that takes no result for a result without fields
after_classifier_completes_empty(row, result) ==
    IF IsEmptyResult(result)
    THEN [row |-> [row EXCEPT !.status = "completed"], pc |-> "commit", error |-> None]
    ELSE LET upd == update_analysis_with_results(row, result)
         IN  IF upd.raised
             THEN [row |-> upd.row, pc |-> "except", error |-> ConversionSyntax]
             ELSE [row |-> upd.row, pc |-> "allergens", error |-> None]

\* A call that asks the classifier again when it got nothing
after_classifier_retry(row, result) ==
    IF IsEmptyResult(result)
    THEN [row |-> row, pc |-> "classify", error |-> None]
    ELSE LET upd == update_analysis_with_results(row, result)
         IN  IF upd.raised
             THEN [row |-> upd.row, pc |-> "except", error |-> ConversionSyntax]
             ELSE [row |-> upd.row, pc |-> "allergens", error |-> None]

\* analyze_food_image lines 43-45 and 51-53: on a result the row's fields are
\* set in the session and the allergens come next, unless a statement raised;
\* without a result the row is marked failed and committed next
after_classifier(row, result) ==
    IF IsEmptyResult(result)
    THEN [row   |-> [row EXCEPT !.status = "failed",
                                !.error_message = FailedToAnalyze],
          pc    |-> "commit",
          error |-> None]
    ELSE LET upd == update_analysis_with_results(row, result)
         IN  IF upd.raised
             THEN [row |-> upd.row, pc |-> "except", error |-> ConversionSyntax]
             ELSE [row |-> upd.row, pc |-> "allergens", error |-> None]

\* The sample response; one allergen in three spellings with a confidence
\* above 1; a blank name next to a good one; an entry whose confidence is no
\* number after a good entry; an entry without a name; a confidence score
\* that is no number; a response without keys; no response
StepResponses ==
    { SampleResponse,
      Response(Num(18500), Num(25000), Num(85),
               List(<<AllergenEntry(Text(<<"D","a","i","r","y">>), Num(90)),
                      AllergenEntry(Text(<<" ","d","a","i","r","y"," ">>), Absent),
                      AllergenEntry(Text(Dairy), Num(150))>>)),
      Response(Num(18500), Num(25000), Num(85),
               List(<<AllergenEntry(Text(<<" ">>), Num(50)),
                      AllergenEntry(Text(<<"n","u","t","s">>), Num(70))>>)),
      Response(Num(18500), Num(25000), Num(85),
               List(<<AllergenEntry(Text(<<"n","u","t","s">>), Num(70)),
                      AllergenEntry(Text(<<"s","o","y">>), Text(<<"high">>))>>)),
      Response(Num(18500), Num(25000), Num(85),
               List(<<AllergenEntry(None, Num(50))>>)),
      Response(Num(18500), Num(25000), Text(<<"high">>), SampleResponse.allergens),
      EmptyResponse,
      None }

\* A second valid upload of the first user
SecondUpload ==
    save_image(CHOOSE c \in SmallContents : c.format = "JPEG",
               <<"t","e","s","t",".","j","p","g">>, 2)

\* Two stored images of the first user, and nothing analysed yet
InitSteps ==
    /\ users = {FirstUser}
    /\ images = {FoodImageRow(1, FirstUser.id, <<"t","e","s","t",".","j","p","g">>,
                              FirstUpload),
                 FoodImageRow(2, FirstUser.id, <<"t","e","s","t",".","j","p","g">>,
                              SecondUpload)}
    /\ files = {FileOf(FirstUpload), FileOf(SecondUpload)}
    /\ analyses = {}
    /\ allergens = {}
    /\ detections = {}
    /\ nextId = [t \in Tables |-> IF t = "users" THEN 2
                                  ELSE IF t = "food_images" THEN 3 ELSE 1]
    /\ nextUuid = 3
    /\ op = NoOp

\* analyze_food_image lines 21-33: None without an image row; else the new
\* row is committed in status processing (IntegrityError when the image has a
\* row already)
BeginAnalysis ==
    /\ op.done
    /\ \E food_image_id \in IdsOf("food_images"), response \in StepResponses :
        LET analysis == NewAnalysis(nextId["nutritional_analyses"], food_image_id)
            call == [name          |-> "analyze_food_image",
                     food_image_id |-> food_image_id,
                     response      |-> response,
                     calls         |-> 0,
                     result        |-> None,
                     row           |-> None,
                     i             |-> 1,
                     pending       |-> {},
                     error         |-> None,
                     pc            |-> "returned",
                     done          |-> TRUE,
                     raised        |-> FALSE,
                     ret           |-> None]
        IN  IF ~\E img \in images : img.id = food_image_id
            THEN /\ op' = call
                 /\ UNCHANGED <<users, images, analyses, allergens, detections,
                                files, nextId, nextUuid>>
            ELSE IF ~AnalysisInsertAllowed(analyses, analysis)
            THEN /\ op' = [call EXCEPT !.raised = TRUE]
                 /\ UNCHANGED <<users, images, analyses, allergens, detections,
                                files, nextId, nextUuid>>
            ELSE /\ analyses' = analyses \cup {analysis}
                 /\ nextId' = [nextId EXCEPT !["nutritional_analyses"] = @ + 1]
                 /\ op' = [call EXCEPT !.row = analysis, !.pc = "classify",
                                       !.done = FALSE]
                 /\ UNCHANGED <<users, images, allergens, detections, files,
                                nextUuid>>

\* The call in flight is at the given place
At(pc) == op.name = "analyze_food_image" /\ ~op.done /\ op.pc = pc

\* Line 39: the classifier is asked
CallClassifier ==
    /\ At("classify")
    /\ LET food_image == CHOOSE img \in images : img.id = op.food_image_id
       IN  op' = [op EXCEPT
                    !.result = analyze_with_ai(files, food_image.file_path, op.response),
                    !.calls  = @ + 1,
                    !.pc     = "update"]
    /\ UNCHANGED <<users, images, analyses, allergens, detections, files,
                   nextId, nextUuid>>

\* Lines 43-45 and 51-53, in the session only
UpdateAnalysis ==
    /\ At("update")
    /\ LET r == after_classifier(op.row, op.result)
       IN  op' = [op EXCEPT !.row = r.row, !.pc = r.pc, !.error = r.error]
    /\ UNCHANGED <<users, images, analyses, allergens, detections, files,
                   nextId, nextUuid>>

\* _create_allergen_detections, one entry of the loop per step.  A new
\* allergen is committed at once (line 141), and with it whatever the session
\* holds: the row's new fields and the detections of earlier entries.  After
\* the last entry line 154 commits, and line 50 sets the status in the session.
CreateAllergenDetection ==
    /\ At("allergens")
    /\ LET detected == Get(op.result.allergens, List(<<>>)).list
       IN  IF op.i > Len(detected)
           THEN /\ analyses' = Committed(analyses, op.row)
                /\ detections' = detections \cup op.pending
                /\ op' = [op EXCEPT !.pending = {},
                                    !.row = [@ EXCEPT !.status = "completed"],
                                    !.pc = "commit"]
                /\ UNCHANGED <<allergens, nextId>>
           ELSE LET st == create_allergen_detections(
                              [allergens     |-> allergens,
                               detections    |-> {},
                               nextAllergen  |-> nextId["allergens"],
                               nextDetection |-> nextId["allergen_detections"],
                               raised        |-> FALSE,
                               error         |-> None],
                              op.row.id, <<detected[op.i]>>, 1)
                    created == st.allergens # allergens
                IN  /\ allergens' = st.allergens
                    /\ analyses' = IF created THEN Committed(analyses, op.row)
                                   ELSE analyses
                    /\ detections' = IF created THEN detections \cup op.pending
                                     ELSE detections
                    /\ nextId' = [nextId EXCEPT
                                    !["allergens"] = st.nextAllergen,
                                    !["allergen_detections"] = st.nextDetection]
                    /\ op' = [op EXCEPT
                                !.pending = (IF created THEN {} ELSE @)
                                               \cup st.detections,
                                !.i       = @ + 1,
                                !.error   = IF st.raised THEN st.error ELSE @,
                                !.pc      = IF st.raised THEN "except" ELSE "allergens"]
    /\ UNCHANGED <<users, images, files, nextUuid>>

\* The commit that ends the call, with what the session holds
EndAnalysis(final) ==
    /\ analyses' = Committed(analyses, final)
    /\ detections' = detections \cup op.pending
    /\ op' = [op EXCEPT !.row = final, !.pending = {}, !.pc = "returned",
                        !.done = TRUE, !.ret = final]
    /\ UNCHANGED <<users, images, allergens, files, nextId, nextUuid>>

\* Lines 55-59
CommitAnalysis == At("commit") /\ EndAnalysis(op.row)

\* Lines 61-69
FailAnalysis == At("except") /\ EndAnalysis(failed_row(op.row, op.error))

\* FileService.delete_image on the file of a stored image, between calls
UnlinkFile ==
    /\ op.done
    /\ \E img \in images :
        LET r == delete_image(files, img.file_path, FALSE)
        IN  /\ files' = r.files
            /\ op' = [name    |-> "delete_image",
                      path    |-> img.file_path,
                      existed |-> FileAt(files, img.file_path),
                      repeat  |-> FALSE,
                      refused |-> FALSE,
                      done    |-> TRUE,
                      raised  |-> FALSE,
                      ret     |-> r.ret]
    /\ UNCHANGED <<users, images, analyses, allergens, detections, nextId, nextUuid>>

NextSteps ==
    \/ BeginAnalysis
    \/ CallClassifier
    \/ UpdateAnalysis
    \/ CreateAllergenDetection
    \/ CommitAnalysis
    \/ FailAnalysis
    \/ UnlinkFile
    \/ op.done /\ DeleteFoodImage

SpecSteps == InitSteps /\ [][NextSteps]_vars

-----------------------------------------------------------------------------
(* One upload request: _process_upload creates the image and, with the row *)
(* it got back, has it analysed                                            *)

\* _process_upload lines 99-109: without a row the request ends with an error
\* display; with one, the image is analysed
AnalyzeUploaded ==
    /\ op.name = "create_food_image"
    /\ op.done
    /\ op.ret # None
    /\ \E response \in MainResponses : AnalyzeFoodImageCall(op.ret.id, response)

NextRequest == CreateFoodImagePending \/ AnalyzeUploaded

\* The page has its user, and an upload arrives
InitRequest == InitUpload /\ op.name = "create_food_image"

SpecRequest == InitRequest /\ [][NextRequest]_vars

-----------------------------------------------------------------------------
(* The lists the pages show: a user's images and the recent analyses *)

\* How many images the users upload in a run
MaxListed == 3

Min2(a, b) == IF a <= b THEN a ELSE b

\* What a SELECT with LIMIT and without ORDER BY may return: limit of the
\* rows, or all of them if there are fewer, in any order
Selections(rows, limit) ==
    LET n == Min2(limit, Cardinality(rows))
    IN  {s \in [1..n -> rows] : \A i, j \in 1..n : i # j => s[i] # s[j]}

\* UserService.get_user_food_images: the results the query may have
get_user_food_images(imgs, user_id, limit) ==
    Selections({img \in imgs : img.user_id = user_id}, limit)

\* NutritionAnalysisService.get_recent_analyses: the results the query may have
get_recent_analyses(as, limit) == Selections(as, limit)

\* A valid upload by one of the users
UploadImage ==
    /\ nextId["food_images"] <= MaxListed
    /\ \E user \in users :
          CreateFoodImageCall(user.id,
                              CHOOSE c \in SmallContents : c.format = "JPEG",
                              <<"t","e","s","t",".","j","p","g">>)

\* The analysis of a stored image, with the sample response
AnalyzeListed ==
    \E img \in images : AnalyzeFoodImageCall(img.id, SampleResponse)

Listed(call) ==
    /\ op' = call
    /\ UNCHANGED <<users, images, analyses, allergens, detections, files,
                   nextId, nextUuid>>

GetUserFoodImages ==
    \E user \in users, limit \in {1, 20} :
        \E ret \in get_user_food_images(images, user.id, limit) :
            Listed([name |-> "get_user_food_images", user_id |-> user.id,
                    limit |-> limit, done |-> TRUE, ret |-> ret])

\* main_page line 81 and history_page line 165: the sidebar of the main page
\* and the history page show what get_recent_analyses returns
HistoryPage ==
    \E user \in users, limit \in {5, 50} :
        \E ret \in get_recent_analyses(analyses, limit) :
            Listed([name |-> "history_page", user_id |-> user.id,
                    limit |-> limit, done |-> TRUE, ret |-> ret])

NextViews ==
    \/ MainPage
    \/ UploadImage
    \/ AnalyzeListed
    \/ GetUserFoodImages
    \/ HistoryPage

SpecViews == Init /\ [][NextViews]_vars

-----------------------------------------------------------------------------
(* Two requests in get_or_create_user at once. The lookup and the insert of *)
(* a call are separate sessions, so the store orders the four statements of *)
(* two calls in any way that keeps each call's own order.                   *)

Requests == {1, 2}

\* A call of get_or_create_user(email, name) about to do its lookup
UserRequest(email, name) ==
    [email |-> email, user_name |-> name, pc |-> "lookup", found |-> None,
     raised |-> FALSE, ret |-> None]

InitRace ==
    /\ users = {}
    /\ images = {}
    /\ analyses = {}
    /\ allergens = {}
    /\ detections = {}
    /\ files = {}
    /\ nextId = [t \in Tables |-> 1]
    /\ nextUuid = 1
    /\ \E e1, e2 \in Emails, n1, n2 \in Names :
          op = [name  |-> "get_or_create_user",
                done  |-> FALSE,
                calls |-> [r \in Requests |->
                             IF r = 1 THEN UserRequest(e1, n1)
                             ELSE UserRequest(e2, n2)]]

\* Both calls have returned or raised
Returned(calls) == \A r \in Requests : calls[r].pc = "returned"

\* get_or_create_user lines 31-33: the lookup, and the return of a row found
LookupUser ==
    \E r \in Requests :
        /\ op.name = "get_or_create_user" /\ ~op.done
        /\ op.calls[r].pc = "lookup"
        /\ LET user  == get_user_by_email(users, op.calls[r].email)
               call  == IF user # None
                        THEN [op.calls[r] EXCEPT !.found = user, !.ret = user,
                                                 !.pc = "returned"]
                        ELSE [op.calls[r] EXCEPT !.pc = "insert"]
               calls == [op.calls EXCEPT ![r] = call]
           IN  op' = [op EXCEPT !.calls = calls, !.done = Returned(calls)]
        /\ UNCHANGED <<users, images, analyses, allergens, detections, files,
                       nextId, nextUuid>>

\* get_or_create_user lines 35-36: create_user inserts and commits
InsertUser ==
    \E r \in Requests :
        /\ op.name = "get_or_create_user" /\ ~op.done
        /\ op.calls[r].pc = "insert"
        /\ LET c     == op.calls[r]
               res   == create_user(users, nextId["users"], c.user_name, c.email)
               calls == [op.calls EXCEPT ![r] = [c EXCEPT !.raised = res.raised,
                                                         !.ret = res.ret,
                                                         !.pc = "returned"]]
           IN  /\ users' = res.users
               /\ nextId' = IF res.users = users THEN nextId
                            ELSE [nextId EXCEPT !["users"] = @ + 1]
               /\ op' = [op EXCEPT !.calls = calls, !.done = Returned(calls)]
        /\ UNCHANGED <<images, analyses, allergens, detections, files, nextUuid>>

NextRace == LookupUser \/ InsertUser

SpecRace == InitRace /\ [][NextRace]_vars

-----------------------------------------------------------------------------
(* Two analyses at once, each in its own session. What a session has added  *)
(* or changed reaches the store at its commits; a lookup sees what has been *)
(* committed. A commit that raises rolls the session's transaction back and *)
(* leaves the session unusable until rollback() is called, which            *)
(* analyze_food_image never does: its next commit raises.                   *)

Nuts == <<"n","u","t","s">>

\* Responses naming nuts alone, soy and then nuts, nuts and then soy with a
\* confidence that is no number, and the sample's dairy
PairResponses ==
    { Response(Num(18500), Num(25000), Num(85),
               List(<<AllergenEntry(Text(Nuts), Num(70))>>)),
      Response(Num(18500), Num(25000), Num(85),
               List(<<AllergenEntry(Text(Nuts), Num(70)),
                      AllergenEntry(Text(<<"s","o","y">>), Text(<<"high">>))>>)),
      Response(Num(18500), Num(25000), Num(85),
               List(<<AllergenEntry(Text(<<"s","o","y">>), Num(60)),
                      AllergenEntry(Text(Nuts), Num(80))>>)),
      SampleResponse }

\* A call of analyze_food_image(food_image_id) about to start
AnalysisRequest(food_image_id, response) ==
    [food_image_id |-> food_image_id,
     response      |-> response,
     result        |-> None,
     row           |-> None,
     i             |-> 1,
     found         |-> None,
     pending       |-> {},
     error         |-> None,
     inactive      |-> FALSE,
     pc            |-> "begin",
     raised        |-> FALSE,
     ret           |-> None]

InitPair ==
    /\ users = {FirstUser}
    /\ images = {FoodImageRow(1, FirstUser.id, <<"t","e","s","t",".","j","p","g">>,
                              FirstUpload),
                 FoodImageRow(2, FirstUser.id, <<"t","e","s","t",".","j","p","g">>,
                              SecondUpload)}
    /\ files = {FileOf(FirstUpload), FileOf(SecondUpload)}
    /\ analyses = {}
    /\ allergens = {}
    /\ detections = {}
    /\ nextId = [t \in Tables |-> IF t = "users" THEN 2
                                  ELSE IF t = "food_images" THEN 3 ELSE 1]
    /\ nextUuid = 3
    /\ \E r1, r2 \in PairResponses :
          op = [name  |-> "analyze_food_image twice",
                done  |-> FALSE,
                calls |-> [r \in Requests |->
                             IF r = 1 THEN AnalysisRequest(1, r1)
                             ELSE AnalysisRequest(2, r2)]]

\* Request r is at the given place of analyze_food_image
PairAt(r, pc) ==
    op.name = "analyze_food_image twice" /\ ~op.done /\ op.calls[r].pc = pc

\* op once request r has got to `call`
PairStep(r, call) ==
    LET calls == [op.calls EXCEPT ![r] = call]
    IN  op' = [op EXCEPT !.calls = calls, !.done = Returned(calls)]

\* Lines 21-33: the new row is committed in status processing
BeginOfPair ==
    \E r \in Requests :
        /\ PairAt(r, "begin")
        /\ LET c        == op.calls[r]
               analysis == NewAnalysis(nextId["nutritional_analyses"], c.food_image_id)
           IN  IF AnalysisInsertAllowed(analyses, analysis)
               THEN /\ analyses' = analyses \cup {analysis}
                    /\ nextId' = [nextId EXCEPT !["nutritional_analyses"] = @ + 1]
                    /\ PairStep(r, [c EXCEPT !.row = analysis, !.pc = "classify"])
               ELSE /\ PairStep(r, [c EXCEPT !.raised = TRUE, !.pc = "returned"])
                    /\ UNCHANGED <<analyses, nextId>>
        /\ UNCHANGED <<users, images, allergens, detections, files, nextUuid>>

\* Lines 39-45: the classifier is asked and the row's fields are set in the
\* session
ClassifyOfPair ==
    \E r \in Requests :
        /\ PairAt(r, "classify")
        /\ LET c          == op.calls[r]
               food_image == CHOOSE img \in images : img.id = c.food_image_id
               result     == analyze_with_ai(files, food_image.file_path, c.response)
               after      == after_classifier(c.row, result)
           IN  PairStep(r, [c EXCEPT !.result = result, !.row = after.row,
                                     !.pc = after.pc, !.error = after.error])
        /\ UNCHANGED <<users, images, analyses, allergens, detections, files,
                       nextId, nextUuid>>

\* _create_allergen_detections lines 131-138: the name of entry i and the
\* lookup of its Allergen row; after the last entry line 154 commits, and
\* line 50 sets the status in the session
SelectAllergen ==
    \E r \in Requests :
        /\ PairAt(r, "allergens")
        /\ LET c        == op.calls[r]
               detected == Get(c.result.allergens, List(<<>>)).list
           IN  IF c.i > Len(detected)
               THEN /\ analyses' = Committed(analyses, c.row)
                    /\ detections' = detections \cup c.pending
                    /\ PairStep(r, [c EXCEPT !.pending = {},
                                             !.row = [@ EXCEPT !.status = "completed"],
                                             !.pc = "commit"])
               ELSE LET name     == Get(detected[c.i].name, Text(<<>>))
                        stripped == Strip(Lower(name.text))
                    IN  /\ IF ~IsText(name)
                           THEN PairStep(r, [c EXCEPT !.error = NoLowerAttribute,
                                                     !.pc = "except"])
                           ELSE IF stripped = <<>>
                           THEN PairStep(r, [c EXCEPT !.i = @ + 1])
                           ELSE PairStep(r, [c EXCEPT
                                               !.found = AllergenNamed(allergens, stripped),
                                               !.pc = "detect"])
                        /\ UNCHANGED <<analyses, detections>>
        /\ UNCHANGED <<users, images, allergens, files, nextId, nextUuid>>

\* _create_allergen_detections lines 140-152: an allergen not found is added
\* and committed, with whatever the session holds; the commit raises
\* IntegrityError when a row of that name has been committed since the lookup.
\* Then the detection of entry i is added to the session.
AddDetection ==
    \E r \in Requests :
        /\ PairAt(r, "detect")
        /\ LET c        == op.calls[r]
               data     == Get(c.result.allergens, List(<<>>)).list[c.i]
               stripped == Strip(Lower(data.name.text))
               created  == c.found = None
               allergen == IF created
                           THEN [id |-> nextId["allergens"], name |-> stripped,
                                 severity_level |-> "moderate"]
                           ELSE c.found
               refused  == created /\ AllergenNamed(allergens, stripped) # None
               conf     == ToDecimal(Get(data.confidence, Num(50)))
               detection == [id                      |-> nextId["allergen_detections"],
                             nutritional_analysis_id |-> c.row.id,
                             allergen_id             |-> allergen.id,
                             confidence_score        |-> conf,
                             detected_in             |-> Get(data.detected_in, None)]
               held     == IF created THEN {} ELSE c.pending
           IN  IF refused
               THEN /\ PairStep(r, [c EXCEPT !.row = CHOOSE a \in analyses :
                                                        a.id = c.row.id,
                                             !.pending = {},
                                             !.inactive = TRUE,
                                             !.pc = "except"])
                    /\ UNCHANGED <<analyses, allergens, detections, nextId>>
               ELSE /\ allergens' = allergens \cup {allergen}
                    /\ analyses' = IF created THEN Committed(analyses, c.row)
                                   ELSE analyses
                    /\ detections' = IF created THEN detections \cup c.pending
                                     ELSE detections
                    /\ nextId' = [nextId EXCEPT
                                    !["allergens"] = IF created THEN @ + 1 ELSE @,
                                    !["allergen_detections"] =
                                        IF conf = Raise THEN @ ELSE @ + 1]
                    /\ IF conf = Raise
                       THEN PairStep(r, [c EXCEPT !.pending = held,
                                                 !.error = ConversionSyntax,
                                                 !.pc = "except"])
                       ELSE PairStep(r, [c EXCEPT !.pending = held \cup {detection},
                                                 !.i = @ + 1,
                                                 !.pc = "allergens"])
        /\ UNCHANGED <<users, images, files, nextUuid>>

\* The commit that ends request r, with what its session holds
EndOfPair(r, final) ==
    /\ analyses' = Committed(analyses, final)
    /\ detections' = detections \cup op.calls[r].pending
    /\ PairStep(r, [op.calls[r] EXCEPT !.row = final, !.pending = {},
                                       !.pc = "returned", !.ret = final])
    /\ UNCHANGED <<users, images, allergens, files, nextId, nextUuid>>

\* Lines 55-59
CommitOfPair ==
    \E r \in Requests : PairAt(r, "commit") /\ EndOfPair(r, op.calls[r].row)

\* Lines 61-69: the except branch commits the row as failed; in a session whose
\* earlier commit raised, this commit raises too and the call ends by raising
FailOfPair ==
    \E r \in Requests :
        /\ PairAt(r, "except")
        /\ IF op.calls[r].inactive
           THEN /\ PairStep(r, [op.calls[r] EXCEPT !.raised = TRUE,
                                                   !.pc = "returned"])
                /\ UNCHANGED <<users, images, analyses, allergens, detections,
                               files, nextId, nextUuid>>
           ELSE EndOfPair(r, failed_row(op.calls[r].row, op.calls[r].error))

NextPair ==
    \/ BeginOfPair
    \/ ClassifyOfPair
    \/ SelectAllergen
    \/ AddDetection
    \/ CommitOfPair
    \/ FailOfPair

SpecPair == InitPair /\ [][NextPair]_vars

-----------------------------------------------------------------------------
(* Claims about the status of an analysis *)

Terminal == {"completed", "failed"}

\* The stored row of the analysis the call created
Stored(row) == CHOOSE a \in analyses : a.id = row.id

-----------------------------------------------------------------------------
(* Claims about what a response leaves in the row *)

\* C12: on every non-null classifier response the analysis is marked completed
\* and every nutrition field of the row (food_items, confidence_score, the
\* eight nutrients, estimated_portion_g, vitamins, minerals) holds the value
\* the response reported for it, including reported values of 0 and an
\* estimated portion reported without calories.
C12_ReportedValuesStored ==
    Analyzed /\ op.response # None =>
        LET a == AnalysisOf(op.food_image_id)
            r == op.response
        IN  /\ a.status = "completed"
            /\ r.food_items # Absent => a.food_items = r.food_items
            /\ IsNum(r.confidence_score) => a.confidence_score = r.confidence_score
            /\ \A i \in 1..Len(NutritionFields) :
                  IsNum(NutritionGet(r, NutritionFields[i]))
                      => a[NutritionFields[i]] = NutritionGet(r, NutritionFields[i])
            /\ IsNum(r.estimated_portion_g)
                  => a.estimated_portion_g = r.estimated_portion_g
            /\ r.vitamins # Absent => a.vitamins = r.vitamins
            /\ r.minerals # Absent => a.minerals = r.minerals

-----------------------------------------------------------------------------
(* Claims about allergens and their detections *)

\* The allergen entries of the response of the last call
Reported == Get(op.response.allergens, List(<<>>)).list

\* The detections attached to an analysis
Attached(a) == {d \in detections : d.nutritional_analysis_id = a.id}

\* A reported name that is empty or holds blanks only
Blank(name) == \A i \in 1..Len(name) : name[i] = " "

\* stored is the lower-cased reported name without the blanks around it
Normalises(stored, reported) ==
    /\ stored # <<>>
    /\ stored[1] # " "
    /\ stored[Len(stored)] # " "
    /\ \E i \in 1..Len(reported) :
          /\ i + Len(stored) - 1 <= Len(reported)
          /\ SubSeq(Lower(reported), i, i + Len(stored) - 1) = stored
          /\ \A k \in 1..Len(reported) :
                (k < i \/ k > i + Len(stored) - 1) => reported[k] = " "

\* Some attached detection references the allergen row of the entry's name
DetectedAs(a, entry) ==
    \E d \in Attached(a), al \in allergens :
        /\ d.allergen_id = al.id
        /\ Normalises(al.name, entry.name.text)

Completed ==
    Analyzed /\ AnalysisOf(op.food_image_id).status = "completed"

\* C13 as claimed: for a completed analysis the number of AllergenDetection
\* rows attached to it equals the number of allergens the classifier
\* reported, one row per reported entry, also for entries with an empty or
\* whitespace-only name and for the same allergen reported twice.
C13_OneDetectionPerEntry ==
    Completed =>
        Cardinality(Attached(AnalysisOf(op.food_image_id))) = Len(Reported)

\* C13, amended: for a completed analysis the number of AllergenDetection rows
\* attached to it equals the number of reported entries whose name is not
\* empty after lower-casing and stripping (an entry with an empty or
\* whitespace-only name gets no row, the same allergen reported twice gets
\* two), and each such entry's row references the Allergen row of the
\* normalised name, which exists afterwards.
C13_OneDetectionPerNamedEntry ==
    Completed =>
        LET a     == AnalysisOf(op.food_image_id)
            named == {i \in 1..Len(Reported) : ~Blank(Reported[i].name.text)}
        IN  /\ Cardinality(Attached(a)) = Cardinality(named)
            /\ \A i \in named : DetectedAs(a, Reported[i])
            /\ \A d \in Attached(a) : \E al \in allergens : al.id = d.allergen_id

\* One allergen reported three times in three spellings: three rows, all
\* referencing the one allergen row
C13_Witness ==
    /\ Completed
    /\ Len(Reported) = 3
    /\ Cardinality(Attached(AnalysisOf(op.food_image_id))) = 3
    /\ Cardinality(allergens) = 1

\* A name as lower().strip() leaves it: no capital letter, no blank around it
Normalised(name) ==
    /\ name # <<>>
    /\ name[1] # " "
    /\ name[Len(name)] # " "
    /\ \A i \in 1..Len(name) : \A k \in 1..26 : name[i] # UpperAlpha[k]

\* C14: in every reachable state no two Allergen rows have the same name, and
\* every Allergen name is lower-cased and stripped of surrounding whitespace,
\* so 'Dairy', ' dairy ' and 'dairy' all map to one Allergen row.
C14_AllergenNamesUniqueAndNormalised ==
    /\ \A a, b \in allergens : a.name = b.name => a = b
    /\ \A a \in allergens : Normalised(a.name)

\* Two analyses, one reporting dairy in three spellings and one reporting it
\* once, have four detections that reference the one allergen row
C14_Witness ==
    /\ op.done
    /\ Cardinality(allergens) = 1
    /\ \A a \in allergens : a.name = Dairy
    /\ Cardinality(detections) = 4
    /\ Cardinality({d.nutritional_analysis_id : d \in detections}) = 2
    /\ \A d \in detections : \E a \in allergens : a.id = d.allergen_id

\* A stored confidence, in hundredths, lies in [0, 1]
InUnitInterval(score) == IsNum(score) /\ 0 <= score.num /\ score.num <= 100

\* C15: in every reachable state every stored NutritionalAnalysis
\* confidence_score and every stored AllergenDetection confidence_score lies
\* in [0, 1], for any value the classifier reports.
C15_ConfidenceInUnitInterval ==
    /\ \A a \in analyses :
          a.confidence_score # None => InUnitInterval(a.confidence_score)
    /\ \A d \in detections : InUnitInterval(d.confidence_score)

-----------------------------------------------------------------------------
(* Claims about failed analyses *)

\* The call that ended last was an analysis that created a row
AnalysisEnded ==
    op.name = "analyze_food_image" /\ op.done /\ ~op.raised /\ op.row # None

\* The file of the image of the call cannot be read
Unreadable ==
    \E img \in images : img.id = op.food_image_id /\ ~FileAt(files, img.file_path)

\* A row marked failed, with an error text of 1 to 1000 characters
FailedWithMessage(a) ==
    /\ a.status = "failed"
    /\ a.error_message # None
    /\ 1 <= a.error_message.len
    /\ a.error_message.len <= 1000

C17_NoRetryAndTerminalStays ==
    [][ /\ op'.name = "analyze_food_image" => op'.calls <= 1
        /\ \A a \in analyses, b \in analyses' :
              a.id = b.id /\ a.status \in Terminal => b.status = a.status ]_vars

\* A further call for an image whose analysis had failed: it raised without
\* asking the classifier, and the row is still the failed one
C17_Witness ==
    /\ op.name = "analyze_food_image"
    /\ op.done
    /\ op.raised
    /\ op.calls = 0
    /\ \E a \in analyses :
          a.food_image_id = op.food_image_id /\ FailedWithMessage(a)

-----------------------------------------------------------------------------
(* Claims about what analyze_food_image returns *)

-----------------------------------------------------------------------------
(* Claims about a request as a whole *)

\* The upload fails validation: a name without an allowed extension, content
\* over the size limit, or bytes that do not decode
Invalid(call) ==
    \/ ~ExtensionAllowed(call.filename)
    \/ call.content.len > MAX_FILE_SIZE
    \/ call.content.kind # "image"

\* The upload that ended last
Uploaded(call) == call.name = "create_food_image" /\ call.done

\* C19: on a validation failure (bad extension, oversize, or undecodable
\* bytes) create_food_image returns None and nothing is persisted: no file is
\* written to the upload directory, no FoodImage row is inserted, and no
\* NutritionalAnalysis row is created for the request.
C19_InvalidUploadPersistsNothing ==
    [][ /\ Uploaded(op') /\ Invalid(op') =>
              /\ op'.ret = None
              /\ UNCHANGED <<users, images, analyses, allergens, detections, files>>
        /\ Uploaded(op) /\ Invalid(op) => UNCHANGED vars ]_vars

\* An upload of an image over the size limit under an allowed name has ended
\* with None, and the store and the upload directory are empty
C19_Witness ==
    /\ Uploaded(op)
    /\ op.content.kind = "image"
    /\ op.content.len > MAX_FILE_SIZE
    /\ ExtensionAllowed(op.filename)
    /\ op.ret = None
    /\ images = {} /\ files = {} /\ analyses = {}

\* C20: per upload request the steps happen in the order validate, store
\* file, insert analysis row with status processing, call classifier, update
\* the row to completed/failed, insert allergen rows; in particular the
\* processing row is committed before the classifier is called, and no
\* AllergenDetection row exists for an analysis whose stored status is still
\* processing.
C20_RowBeforeClassifierAndStatusBeforeDetections ==
    /\ op.name = "analyze_food_image" /\ op.calls > 0 =>
          \E a \in analyses : a.id = op.row.id
    /\ \A d \in detections : \A a \in analyses :
          a.id = d.nutritional_analysis_id => a.status # "processing"

-----------------------------------------------------------------------------
(* Claims about user rows under updates *)

\* C21: in every reachable state no two User rows share an email, and no
\* operation removes a User row: after any sequence of create_user,
\* get_or_create_user and update_user calls (an update_user setting an email
\* another user has included) emails stay unique and the set of user ids only
\* grows.
C21_EmailsUniqueAndUsersKept ==
    [][ /\ \A u, v \in users' : u.email = v.email => u = v
        /\ \A u \in users : \E v \in users' : v.id = u.id ]_vars

\* update_user was asked to give a user the email of another user: it raised,
\* and both rows are as they were
C21_Witness ==
    /\ op.name = "update_user"
    /\ op.raised
    /\ "email" \in DOMAIN op.update_dict
    /\ \E u, v \in users :
          /\ u.id = op.user_id
          /\ v.id # u.id
          /\ v.email = op.update_dict.email
          /\ u.email # v.email

-----------------------------------------------------------------------------
(* Claims about the lists *)

\* C22: get_user_food_images(user_id, limit) returns only FoodImage rows owned
\* by user_id, at most limit of them, ordered most recent first.
C22_OwnImagesMostRecentFirst ==
    op.name = "get_user_food_images" =>
        /\ \A i \in 1..Len(op.ret) :
              op.ret[i] \in images /\ op.ret[i].user_id = op.user_id
        /\ Len(op.ret) <= op.limit
        /\ \A i, j \in 1..Len(op.ret) : i < j => op.ret[i].id > op.ret[j].id

\* The user the image of an analysis belongs to
OwnerOf(a) == (CHOOSE img \in images : img.id = a.food_image_id).user_id

\* C29: the analyses a user is shown in the history views (main-page sidebar
\* and /history page) are only analyses of images owned by that user, so the
\* list for one user does not change when another user uploads and analyses
\* an image.
C29_HistoryShowsOwnAnalysesOnly ==
    op.name = "history_page" =>
        \A i \in 1..Len(op.ret) : OwnerOf(op.ret[i]) = op.user_id

-----------------------------------------------------------------------------
(* Claims about get_image_path *)

\* The path of a file name in the upload directory
PathOf(filename) == UploadPath(filename.uuid, filename.ext)

\* get_image_path answered with the path if the file exists, else with None
AnsweredByExistence ==
    IF FileAt(files, PathOf(op.filename))
    THEN op.ret = PathOf(op.filename)
    ELSE op.ret = None

-----------------------------------------------------------------------------
(* Claims about what a failed analysis keeps *)

\* No result field of the row is populated
Unpopulated(a) ==
    /\ a.food_items = List(<<>>)
    /\ a.confidence_score = None
    /\ \A i \in 1..Len(NutritionFields) : a[NutritionFields[i]] = None
    /\ a.estimated_portion_g = None
    /\ a.total_calories = None
    /\ a.vitamins = Dict({})
    /\ a.minerals = Dict({})

\* C24: a NutritionalAnalysis whose stored status is failed carries no partial
\* results: it has no AllergenDetection rows and none of its nutrition fields
\* is populated, even when the failure is an exception raised part-way
\* through the reported allergens, after the commit for a new Allergen.
C24_FailedHasNoPartialResults ==
    \A a \in analyses :
        a.status = "failed" => Attached(a) = {} /\ Unpopulated(a)

-----------------------------------------------------------------------------
(* Claims about the files of uploads *)

\* The FoodImage rows whose file_path is the path of file f
ReferencedBy(f) == {img \in images : img.file_path = f.path}

\* C25: every file create_food_image has written to the upload directory is
\* referenced by a FoodImage row; when create_food_image returns None because
\* the save or the insert failed after validation passed, no file written by
\* that call remains on disk.
C25_WrittenFilesAreReferenced ==
    /\ \A f \in files : ReferencedBy(f) # {}
    /\ Uploaded(op) /\ op.ret = None => files = {}

-----------------------------------------------------------------------------
(* Claims about a further analysis of an analysed image *)

\* A call of analyze_food_image begins with this step
Begins == op.done /\ op'.name = "analyze_food_image" /\ op' # op

\* C26: calling analyze_food_image for an image that already has a
\* NutritionalAnalysis leaves that row, its status and its AllergenDetection
\* rows unchanged, and does not invoke the classifier again.
C26_AnalysedImageLeftAlone ==
    [][ Begins /\ (\E a \in analyses : a.food_image_id = op'.food_image_id) =>
            /\ analyses' = analyses
            /\ detections' = detections
            /\ op'.done
            /\ op'.calls = 0 ]_vars

\* A further call for an image whose analysis had completed with detections:
\* it ended without asking the classifier, the completed row still stored
C26_Witness ==
    /\ op.name = "analyze_food_image"
    /\ op.done
    /\ op.calls = 0
    /\ \E a \in analyses :
          /\ a.food_image_id = op.food_image_id
          /\ a.status = "completed"
          /\ Attached(a) # {}

-----------------------------------------------------------------------------
(* Claims about requests at the same time *)

\* Both calls of get_or_create_user were for one email and neither lookup
\* found a row for it
BothMissed(call) ==
    /\ call.name = "get_or_create_user"
    /\ call.done
    /\ call.calls[1].email = call.calls[2].email
    /\ \A r \in Requests : call.calls[r].found = None

\* C27: when two requests interleave get_or_create_user for the same
\* not-yet-existing email (each does its lookup before either inserts),
\* exactly one User row for that email exists afterwards and both calls return
\* that user without an error.
C27_BothReturnTheOneUser ==
    BothMissed(op) =>
        /\ Cardinality({u \in users : u.email = op.calls[1].email}) = 1
        /\ \A r \in Requests :
              /\ ~op.calls[r].raised
              /\ op.calls[r].ret \in users
              /\ op.calls[r].ret.email = op.calls[r].email

\* The allergen entries the classifier reported to request r
ReportedTo(r) == Get(op.calls[r].response.allergens, List(<<>>)).list

\* Every entry reported to request r has a confidence that is a number
AllNumbers(r) ==
    \A i \in 1..Len(ReportedTo(r)) : IsNum(Get(ReportedTo(r)[i].confidence, Num(50)))

\* Both analyses have ended, their responses naming one allergen
BothNamed(name) ==
    /\ op.name = "analyze_food_image twice"
    /\ op.done
    /\ \A r \in Requests :
          /\ AllNumbers(r)
          /\ \E i \in 1..Len(ReportedTo(r)) : ReportedTo(r)[i].name = Text(name)

\* C28: when two analyses of different images interleave and both classifier
\* responses name the same not-yet-existing allergen, exactly one Allergen row
\* of that name exists afterwards, both analyses end completed, and each has
\* its own AllergenDetection row referencing that Allergen.
C28_BothCompletedWithOneAllergen ==
    \A name \in {Nuts, Dairy} :
        BothNamed(name) =>
            /\ Cardinality({al \in allergens : al.name = name}) = 1
            /\ \A r \in Requests :
                  \E a \in analyses, al \in allergens :
                      /\ a.food_image_id = op.calls[r].food_image_id
                      /\ a.status = "completed"
                      /\ al.name = name
                      /\ \E d \in Attached(a) : d.allergen_id = al.id

-----------------------------------------------------------------------------
(* Claims about references between rows *)

\* C30: referential integrity holds in every reachable state: every
\* AllergenDetection references an existing NutritionalAnalysis and an existing
\* Allergen, and every NutritionalAnalysis references an existing FoodImage,
\* after any sequence of uploads, analyses and delete_food_image calls (the
\* delete of an image that has an analysis with detections included).
C30_ReferencesExist ==
    /\ \A d \in detections :
          /\ \E a \in analyses : a.id = d.nutritional_analysis_id
          /\ \E al \in allergens : al.id = d.allergen_id
    /\ \A a \in analyses : \E img \in images : img.id = a.food_image_id

\* The owner asked to delete an image whose analysis has detections: the
\* delete raised, and the image row is still there
C30_Witness ==
    /\ op.name = "delete_food_image"
    /\ op.raised
    /\ HasImage(op.image_id)
    /\ \E a \in analyses : a.food_image_id = op.image_id /\ Attached(a) # {}

=============================================================================
